---- MODULE Spec2Model ----
(***************************************************************************)
(* Model of the group (split) dispatcher of dataset-helpers and of the     *)
(* export loop that drives it:                                             *)
(*   src/src/split.ts   dispatchGroup, genDispatchGroupSequence            *)
(*   src/src/export.ts  exportDatasetHelper, exportCocoDataset             *)
(*                                                                         *)
(* dispatchGroup computes its errors with JavaScript numbers, i.e. IEEE-754*)
(* binary64 values with round-to-nearest-even.  The rounding decides which *)
(* candidate wins whenever two candidates have the same exact error, so    *)
(* the arithmetic is modelled bit for bit: a double is a record            *)
(* [neg, m, e] of value (-1)^neg * m * 2^e whose significand m (at most    *)
(* 53 bits, or exactly 2^53) is a natural number kept as a little-endian   *)
(* sequence of 15-bit limbs.  The exponent range of binary64 is never      *)
(* approached by the values the dispatcher computes (ratios of counts).    *)
(***************************************************************************)
EXTENDS Integers, Sequences, FiniteSets, TLC

(***************************************************************************)
(* Natural numbers of arbitrary size (significands of doubles)             *)
(***************************************************************************)
Base == 32768

LimbBits == 15

MantBits == 53

RECURSIVE Pow2(_)
Pow2(k) == IF k = 0 THEN 1 ELSE 2 * Pow2(k - 1)

RECURSIVE BitLenInt(_)
BitLenInt(n) == IF n = 0 THEN 0 ELSE 1 + BitLenInt(n \div 2)

Limb(a, i) == IF i <= Len(a) THEN a[i] ELSE 0

MaxOf(x, y) == IF x >= y THEN x ELSE y

RECURSIVE BNorm(_)
BNorm(a) ==
  IF a = <<>> THEN <<>>
  ELSE IF a[Len(a)] = 0 THEN BNorm(SubSeq(a, 1, Len(a) - 1)) ELSE a

RECURSIVE BFromInt(_)
BFromInt(n) == IF n = 0 THEN <<>> ELSE <<n % Base>> \o BFromInt(n \div Base)

RECURSIVE BAddC(_, _, _, _)
BAddC(a, b, i, c) ==
  IF i > MaxOf(Len(a), Len(b))
  THEN (IF c = 0 THEN <<>> ELSE <<c>>)
  ELSE LET s == Limb(a, i) + Limb(b, i) + c
       IN  <<s % Base>> \o BAddC(a, b, i + 1, s \div Base)

BAdd(a, b) == BAddC(a, b, 1, 0)

\* a - b for a >= b
RECURSIVE BSubC(_, _, _, _)
BSubC(a, b, i, c) ==
  IF i > Len(a) THEN <<>>
  ELSE LET s == Limb(a, i) - Limb(b, i) - c
       IN  IF s < 0 THEN <<s + Base>> \o BSubC(a, b, i + 1, 1)
                    ELSE <<s>> \o BSubC(a, b, i + 1, 0)

BSub(a, b) == BNorm(BSubC(a, b, 1, 0))

\* -1, 0, 1 as a < b, a = b, a > b (a and b without leading zero limbs)
RECURSIVE BCmpAt(_, _, _)
BCmpAt(a, b, i) ==
  IF i = 0 THEN 0
  ELSE IF a[i] < b[i] THEN -1
  ELSE IF a[i] > b[i] THEN 1
  ELSE BCmpAt(a, b, i - 1)

BCmp(a, b) ==
  IF Len(a) < Len(b) THEN -1
  ELSE IF Len(a) > Len(b) THEN 1
  ELSE BCmpAt(a, b, Len(a))

\* a * k for 0 <= k < 2^15
RECURSIVE BMulSmallC(_, _, _, _)
BMulSmallC(a, k, i, c) ==
  IF i > Len(a)
  THEN (IF c = 0 THEN <<>> ELSE BFromInt(c))
  ELSE LET s == a[i] * k + c
       IN  <<s % Base>> \o BMulSmallC(a, k, i + 1, s \div Base)

BMulSmall(a, k) == IF k = 0 THEN <<>> ELSE BMulSmallC(a, k, 1, 0)

RECURSIVE BMul(_, _)
BMul(a, b) ==
  IF a = <<>> \/ b = <<>> THEN <<>>
  ELSE LET rest == BMul(a, Tail(b))
       IN  BAdd(BMulSmall(a, Head(b)),
                IF rest = <<>> THEN <<>> ELSE <<0>> \o rest)

Zeros(n) == [i \in 1..n |-> 0]

\* a * 2^k
BShl(a, k) ==
  IF a = <<>> THEN <<>>
  ELSE Zeros(k \div LimbBits) \o BMulSmall(a, Pow2(k % LimbBits))

\* floor(a / d) for 1 <= d < 2^15, from the top limb down
RECURSIVE BDivSmallAt(_, _, _, _)
BDivSmallAt(a, d, i, r) ==
  IF i = 0 THEN <<>>
  ELSE LET x == r * Base + a[i]
       IN  BDivSmallAt(a, d, i - 1, x % d) \o <<x \div d>>

\* floor(a / 2^k)
BShr(a, k) ==
  LET drop == k \div LimbBits
      rest == IF drop >= Len(a) THEN <<>> ELSE SubSeq(a, drop + 1, Len(a))
  IN  BNorm(BDivSmallAt(rest, Pow2(k % LimbBits), Len(rest), 0))

BitLen(a) ==
  IF a = <<>> THEN 0 ELSE LimbBits * (Len(a) - 1) + BitLenInt(a[Len(a)])

BOdd(a) == a # <<>> /\ a[1] % 2 = 1

(***************************************************************************)
(* IEEE-754 binary64 arithmetic, round to nearest, ties to even            *)
(***************************************************************************)
FZero == [neg |-> FALSE, m |-> <<>>, e |-> 0]

\* the double nearest to (-1)^neg * (m + s) * 2^e, where 0 <= s < 1 and
\* sticky tells whether s > 0
FRound(neg, m, e, sticky) ==
  LET L == BitLen(m)
  IN  IF m = <<>> THEN FZero
      ELSE IF L <= MantBits THEN [neg |-> neg, m |-> m, e |-> e]
      ELSE LET k    == L - MantBits
               q    == BShr(m, k)
               rem  == BSub(m, BShl(q, k))
               half == BShl(<<1>>, k - 1)
               c    == BCmp(rem, half)
               up   == \/ c = 1
                       \/ c = 0 /\ sticky
                       \/ c = 0 /\ ~sticky /\ BOdd(q)
           IN  [neg |-> neg,
                m   |-> IF up THEN BAdd(q, <<1>>) ELSE q,
                e   |-> e + k]

FracLimbs == 5

\* the limbs of the first n base-2^15 digits of r/b after the point,
\* least significant first, followed by the remainder
RECURSIVE FracDigits(_, _, _)
FracDigits(r, b, n) ==
  IF n = 0 THEN [limbs |-> <<>>, r |-> r]
  ELSE LET x    == r * Base
           rest == FracDigits(x % b, b, n - 1)
       IN  [limbs |-> rest.limbs \o <<x \div b>>, r |-> rest.r]

\* a / b for two doubles holding the integers a >= 0 and 0 < b < 2^16;
\* the quotient is taken to 75 binary places, of which at most 16 are
\* leading zeros, and the remainder tells whether it is exact
FDivInt(a, b) ==
  LET fd == FracDigits(a % b, b, FracLimbs)
      m  == BNorm(fd.limbs \o BFromInt(a \div b))
  IN  FRound(FALSE, m, -(LimbBits * FracLimbs), fd.r # 0)

\* x + y, exactly, before rounding
FAddExact(x, y) ==
  LET e  == IF x.e <= y.e THEN x.e ELSE y.e
      mx == BShl(x.m, x.e - e)
      my == BShl(y.m, y.e - e)
      c  == BCmp(mx, my)
  IN  IF x.neg = y.neg THEN [neg |-> x.neg, m |-> BAdd(mx, my), e |-> e]
      ELSE IF c = 0 THEN FZero
      ELSE IF c = 1 THEN [neg |-> x.neg, m |-> BSub(mx, my), e |-> e]
      ELSE [neg |-> y.neg, m |-> BSub(my, mx), e |-> e]

FAdd(x, y) ==
  LET s == FAddExact(x, y) IN FRound(s.neg, s.m, s.e, FALSE)

FNeg(x) == IF x.m = <<>> THEN x ELSE [x EXCEPT !.neg = ~x.neg]

FSub(x, y) == FAdd(x, FNeg(y))

FMul(x, y) ==
  FRound(x.neg # y.neg, BMul(x.m, y.m), x.e + y.e, FALSE)

\* x < y
FLess(x, y) ==
  LET d == FAddExact(x, FNeg(y)) IN d.m # <<>> /\ d.neg

(***************************************************************************)
(* dispatchGroup  (src/src/split.ts)                                       *)
(***************************************************************************)
GroupType == {"train", "test", "val"}

\* best_error = Infinity
Infinity == [neg |-> FALSE, m |-> <<>>, e |-> 0, inf |-> TRUE]

IsInfinity(x) == "inf" \in DOMAIN x

\* variant: the comparison turned round (error > best_error)
ErrorGreater(error, best_error) ==
  IF IsInfinity(error) THEN ~IsInfinity(best_error)
  ELSE IF IsInfinity(best_error) THEN FALSE
  ELSE FLess(best_error, error)

\* error < best_error
ErrorLess(error, best_error) ==
  IF IsInfinity(best_error) THEN ~IsInfinity(error)
  ELSE FLess(error, best_error)

\* variant: the groups in the order the generator declares its counts
group_types_declared(target) ==
  IF target["val"] = 0 THEN <<"train", "test">>
                       ELSE <<"train", "val", "test">>

\* variant: val is never dropped from the active groups
group_types_three(target) == <<"train", "test", "val">>

\* the active groups, in iteration order
group_types(target) ==
  IF target["val"] = 0 THEN <<"train", "test">>
                       ELSE <<"train", "test", "val">>

\* variant: the validation loop keeps going and reports the last invalid group
RECURSIVE LastInvalid(_, _, _)
LastInvalid(target, gts, i) ==
  IF i > Len(gts) THEN "none"
  ELSE LET later == LastInvalid(target, gts, i + 1)
       IN  IF later # "none" THEN later
           ELSE IF target[gts[i]] <= 0 THEN gts[i] ELSE "none"

\* the first active group whose target is not larger than 0, or "none"
RECURSIVE FirstInvalid(_, _, _)
FirstInvalid(target, gts, i) ==
  IF i > Len(gts) THEN "none"
  ELSE IF target[gts[i]] <= 0 THEN gts[i]
  ELSE FirstInvalid(target, gts, i + 1)

\* variant: the sum runs over the three declared groups
SumOverAll(rec, gts, i) ==
  IF i > Len(gts) THEN 0 ELSE rec["train"] + rec["test"] + rec["val"]

\* gts.reduce((sum, g) => sum + rec[g], 0)
RECURSIVE SumOver(_, _, _)
SumOver(rec, gts, i) ==
  IF i > Len(gts) THEN 0 ELSE rec[gts[i]] + SumOver(rec, gts, i + 1)

\* variant: const simulated = current (no copy)
SimulateAlias(current, group_type) ==
  [simulated |-> [current EXCEPT ![group_type] = @ + 1],
   current   |-> [current EXCEPT ![group_type] = @ + 1]]

\* const simulated = { ...current }; simulated[group_type] += 1
\* The result names both objects: the copy and the caller's current.
Simulate(current, group_type) ==
  [simulated |-> [current EXCEPT ![group_type] = @ + 1],
   current   |-> current]

\* the inner loop: error += diff * diff over the active groups
RECURSIVE ErrorFrom(_, _, _, _, _, _, _)
ErrorFrom(simulated, target, gts, new_total, total_target, j, error) ==
  IF j > Len(gts) THEN error
  ELSE LET actual_ratio == FDivInt(simulated[gts[j]], new_total)
           target_ratio == FDivInt(target[gts[j]], total_target)
           diff         == FSub(actual_ratio, target_ratio)
       IN  ErrorFrom(simulated, target, gts, new_total, total_target, j + 1,
                     FAdd(error, FMul(diff, diff)))

\* variant of one iteration: the break is missing, the loop goes on
GroupStepNoBreak(st, target, gts, total_current, total_target, i) ==
  LET group_type == gts[i] IN
  IF st.current[group_type] = 0
  THEN [st EXCEPT !.best_group = group_type, !.rule = "cold"]
  ELSE LET sim   == Simulate(st.current, group_type)
           error == ErrorFrom(sim.simulated, target, gts,
                              total_current + 1, total_target, 1, FZero)
           st1   == [st EXCEPT !.current = sim.current]
       IN  IF ErrorLess(error, st.best_error)
           THEN [st1 EXCEPT !.best_error = error, !.best_group = group_type]
           ELSE st1

\* one iteration of the outer loop, for group_types[i]; st holds best_group,
\* best_error, the caller's current object, the rule that decided
\* ("cold": the zero-count branch, "prop": the error comparison) and
\* broke, set when the iteration leaves the loop
GroupStep(st, target, gts, total_current, total_target, i) ==
  LET group_type == gts[i] IN
  IF st.current[group_type] = 0
  THEN [st EXCEPT !.best_group = group_type, !.rule = "cold", !.broke = TRUE]
  ELSE LET sim   == Simulate(st.current, group_type)
           error == ErrorFrom(sim.simulated, target, gts,
                              total_current + 1, total_target, 1, FZero)
           st1   == [st EXCEPT !.current = sim.current]
       IN  IF ErrorLess(error, st.best_error)
           THEN [st1 EXCEPT !.best_error = error, !.best_group = group_type]
           ELSE st1

\* the outer loop from its i-th iteration on
RECURSIVE GroupLoop(_, _, _, _, _, _)
GroupLoop(st, target, gts, total_current, total_target, i) ==
  IF i > Len(gts) \/ st.broke THEN st
  ELSE GroupLoop(GroupStep(st, target, gts, total_current, total_target, i),
                 target, gts, total_current, total_target, i + 1)

\* The outcome of a call: kind "ok" with the group returned, or kind
\* "error" with the group and value the message names; current is the
\* caller's object as the call leaves it.
dispatchGroup(current, target) ==
  LET gts     == group_types(target)
      invalid == FirstInvalid(target, gts, 1)
  IN  IF invalid # "none"
      THEN [kind |-> "error", group |-> invalid, value |-> target[invalid],
            rule |-> "validate", current |-> current]
      ELSE LET total_target  == SumOver(target, gts, 1)
               total_current == SumOver(current, gts, 1)
               st == GroupLoop([best_group |-> gts[1],
                                best_error |-> Infinity,
                                current    |-> current,
                                rule       |-> "prop",
                                broke      |-> FALSE],
                               target, gts, total_current, total_target, 1)
           IN  [kind |-> "ok", group |-> st.best_group, value |-> 0,
                rule |-> st.rule, current |-> st.current]

(***************************************************************************)
(* genDispatchGroupSequence  (src/src/split.ts)                            *)
(***************************************************************************)
\* variant: the increment is missing
IncrementMissing(counts, group_type) == counts

\* variant: the increment always goes to train
IncrementTrain(counts, group_type) == [counts EXCEPT !["train"] = @ + 1]

\* current[group_type]++
Increment(counts, group_type) == [counts EXCEPT ![group_type] = @ + 1]

ZeroCounts == [train |-> 0, val |-> 0, test |-> 0]

(***************************************************************************)
(* Bounds of the model                                                     *)
(***************************************************************************)
\* largest target weight tried (the smallest is -1)
MaxWeight == 3

\* largest count in the current passed to a direct call
MaxCount == 3

\* largest total given to the generator
MaxTotal == 8

\* length of the convergence run
ConvTotal == 10000

Weights == (0 - 1)..MaxWeight

Targets == [GroupType -> Weights]

Currents == [GroupType -> 0..MaxCount]

ConvTarget == [train |-> 7, test |-> 2, val |-> 1]

NoOutcome ==
  [kind |-> "none", group |-> "none", value |-> 0, rule |-> "none"]

(***************************************************************************)
(* State.  A run is either a caller making one direct call of              *)
(* dispatchGroup (as test() of split.test.ts does) or a consumer pulling   *)
(* from one generator.                                                     *)
(*                                                                         *)
(* Direct call: call_pc is "ready", "returned" or "threw"; call_current    *)
(* and call_target are the caller's two objects, call_args their values    *)
(* when the call was made, call_ret the outcome.                           *)
(*                                                                         *)
(* Generator: gen is "suspended", "done" or "failed"; target, total,       *)
(* current are the generator's locals, i the index the loop test sees on   *)
(* the next pull, yielded the groups the consumer has received and rules   *)
(* the rule (cold start or proportional) that decided each of them.  The   *)
(* consumer keeps these two lists in runs of at most MaxTotal pulls; in    *)
(* the long convergence run only the generator's own state is kept.        *)
(* "absent" marks the part that is not in the run.                         *)
(*                                                                         *)
(* Export run (exportCocoDataset calling exportDatasetHelper):             *)
(*   customDispatchGroup   the caller's override: "none" or its name       *)
(*   groupRatio            the set holding the target ratio, {} if absent  *)
(*   createDirsAndMetadata whether the hook is given to the helper         *)
(*   h_pc   "loop" (about to ask the iterator for a sample), "saving"      *)
(*          (awaiting saveSample), "finalizing" (awaiting the hook),       *)
(*          "done" (promise fulfilled), "rejected" (promise rejected)      *)
(*   groupTypes, currentRatioByClass   the helper's two locals             *)
(*   pulled    the samples the iterator has produced                       *)
(*   chosen    the value of groupType in each iteration that got one       *)
(*   saved     the calls of saveSample, in order                           *)
(*   inflight  the calls of saveSample (by index) not yet settled          *)
(*   finalized the arguments of the calls of createDirsAndMetadata         *)
(*   hook      the promise the hook returned: "none" (not called),         *)
(*             "pending", "fulfilled" or "rejected"                        *)
(*   failure   what failed in the run: a callback rejecting or throwing    *)
(*   h_error   the error the helper's promise is rejected with             *)
(*                                                                         *)
(* The module fs.ts and the files an export writes:                        *)
(*   created_dirs  the module-level cache of cachedMkdir                   *)
(*   mk_log        the calls of cachedMkdir in order: the directory and    *)
(*                 how the call went ("cached": returned at once,          *)
(*                 "pending": awaiting mkdir, "ok", "failed")              *)
(*   overlapped    whether a call of cachedMkdir was ever made while       *)
(*                 another one was awaiting mkdir                          *)
(*   mk_run        the number of export runs started in this process       *)
(*   files         the destination files: path |-> content                 *)
(*   save_step     for each call of save_sample in flight, the await it    *)
(*                 is suspended at                                         *)
(*                                                                         *)
(* Redistributed classify export (exportClassifyDataset with group_ratio   *)
(* and without dispatch_group):                                            *)
(*   group_ratio, class_names   options.group_ratio, metadata.class_names  *)
(*   classify_groups   options.classify_groups: a sequence, in the order   *)
(*                 of its keys, of a group type and its classes, each a    *)
(*                 class name and its file names                           *)
(*   class_name_to_images  the pooled images: a sequence, in insertion     *)
(*                 order, of a class name and its images                   *)
(*   cls_pc        "mkdirs", "classes" (about to take the next class),     *)
(*                 "images" (about to pull the class's generator),         *)
(*                 "copying" (awaiting copyFile), "done", "rejected"       *)
(*   class_idx, image_idx   the class being copied, the images taken       *)
(*   copied        the calls of copyFile: source and destination           *)
(*   dirs_made     the class directories made: <<group type, class name>>  *)
(***************************************************************************)
VARIABLES call_pc, call_current, call_target, call_args, call_ret,
          gen, target, total, current, i, yielded, rules

VARIABLES customDispatchGroup, groupRatio, createDirsAndMetadata, h_pc,
          groupTypes, currentRatioByClass, pulled, chosen, saved, inflight,
          finalized, hook, failure, h_error

VARIABLES created_dirs, mk_log, overlapped, mk_run, files, save_step

VARIABLES group_ratio, class_names, classify_groups, class_name_to_images,
          cls_pc, class_idx, image_idx, copied, dirs_made

call_vars == <<call_pc, call_current, call_target, call_args, call_ret>>

gen_vars == <<gen, target, total, current, i, yielded, rules>>

args_vars == <<customDispatchGroup, groupRatio, createDirsAndMetadata>>

helper_vars == <<customDispatchGroup, groupRatio, createDirsAndMetadata, h_pc,
                 groupTypes, currentRatioByClass, pulled, chosen, saved,
                 inflight, finalized, hook, failure, h_error>>

fs_vars == <<created_dirs, mk_log, overlapped, mk_run, files, save_step>>

cls_vars == <<group_ratio, class_names, classify_groups, class_name_to_images,
              cls_pc, class_idx, image_idx, copied, dirs_made>>

vars == <<call_pc, call_current, call_target, call_args, call_ret,
          gen, target, total, current, i, yielded, rules,
          customDispatchGroup, groupRatio, createDirsAndMetadata, h_pc,
          groupTypes, currentRatioByClass, pulled, chosen, saved, inflight,
          finalized, hook, failure, h_error,
          created_dirs, mk_log, overlapped, mk_run, files, save_step,
          group_ratio, class_names, classify_groups, class_name_to_images,
          cls_pc, class_idx, image_idx, copied, dirs_made>>

NoError == [kind |-> "none", at |-> 0]

NoHelper ==
  /\ customDispatchGroup = "none"
  /\ groupRatio = {}
  /\ createDirsAndMetadata = FALSE
  /\ h_pc = "absent"
  /\ groupTypes = <<>>
  /\ currentRatioByClass = <<>>
  /\ pulled = <<>>
  /\ chosen = <<>>
  /\ saved = <<>>
  /\ inflight = {}
  /\ finalized = <<>>
  /\ hook = "none"
  /\ failure = NoError
  /\ h_error = NoError

\* fs.ts has been loaded, no export has run and nothing has been written
NoFs ==
  /\ created_dirs = {}
  /\ mk_log = <<>>
  /\ overlapped = FALSE
  /\ mk_run = 0
  /\ files = <<>>
  /\ save_step = <<>>

NoClassify ==
  /\ group_ratio = ZeroCounts
  /\ class_names = {}
  /\ classify_groups = <<>>
  /\ class_name_to_images = <<>>
  /\ cls_pc = "absent"
  /\ class_idx = 0
  /\ image_idx = 0
  /\ copied = <<>>
  /\ dirs_made = {}

NoCall ==
  /\ call_pc = "absent"
  /\ call_current = ZeroCounts
  /\ call_target = ZeroCounts
  /\ call_args = [current |-> ZeroCounts, target |-> ZeroCounts]
  /\ call_ret = NoOutcome

NoGen ==
  /\ gen = "absent"
  /\ target = ZeroCounts
  /\ total = 0
  /\ current = ZeroCounts
  /\ i = 0
  /\ yielded = <<>>
  /\ rules = <<>>

\* a caller holding a current and a target, about to call dispatchGroup
InitCall ==
  /\ call_pc = "ready"
  /\ call_current \in Currents
  /\ call_target \in Targets
  /\ call_args = [current |-> call_current, target |-> call_target]
  /\ call_ret = NoOutcome
  /\ NoGen
  /\ NoHelper
  /\ NoFs
  /\ NoClassify

\* genDispatchGroupSequence({target, total}) created, nothing pulled yet
InitGen(targets, totals) ==
  /\ gen = "suspended"
  /\ target \in targets
  /\ total \in totals
  /\ current = ZeroCounts
  /\ i = 0
  /\ yielded = <<>>
  /\ rules = <<>>
  /\ NoCall
  /\ NoHelper
  /\ NoFs
  /\ NoClassify

Init == InitCall \/ InitGen(Targets, 0..MaxTotal)

\* const group_type = dispatchGroup({ current, target })
Call ==
  /\ call_pc = "ready"
  /\ \E r \in {dispatchGroup(call_current, call_target)} :
         /\ call_pc' = IF r.kind = "ok" THEN "returned" ELSE "threw"
         /\ call_current' = r.current
         /\ call_ret' = [kind |-> r.kind, group |-> r.group,
                         value |-> r.value, rule |-> r.rule]
  /\ UNCHANGED <<call_target, call_args>>
  /\ UNCHANGED gen_vars
  /\ UNCHANGED helper_vars
  /\ UNCHANGED fs_vars
  /\ UNCHANGED cls_vars

\* yield group_type, as the consumer records it
Received(seq, x) == IF total <= MaxTotal THEN Append(seq, x) ELSE seq

\* a pull that runs one iteration of the loop and yields: what the
\* generator does
GenYields ==
  /\ gen = "suspended"
  /\ i < total
  /\ \E r \in {dispatchGroup(current, target)} :
         /\ r.kind = "ok"
         /\ current' = Increment(r.current, r.group)
         /\ yielded' = Received(yielded, r.group)
         /\ rules' = Received(rules, r.rule)
  /\ i' = i + 1
  /\ UNCHANGED <<gen, target, total>>

\* a pull by a consumer that only records what it receives
GenNext ==
  /\ GenYields
  /\ UNCHANGED call_vars
  /\ UNCHANGED helper_vars
  /\ UNCHANGED fs_vars
  /\ UNCHANGED cls_vars

\* variant: the generator catches the error and returns
GenCatches == "done"

\* the generator has no try/catch: an error thrown inside it ends it with
\* that error
GenPropagates == "failed"

\* a pull in which dispatchGroup throws: the generator ends with the error
GenThrows ==
  /\ gen = "suspended"
  /\ i < total
  /\ \E r \in {dispatchGroup(current, target)} :
         /\ r.kind = "error"
         /\ current' = r.current
  /\ gen' = GenPropagates
  /\ UNCHANGED <<target, total, i, yielded, rules>>

GenThrow ==
  /\ GenThrows
  /\ UNCHANGED call_vars
  /\ UNCHANGED helper_vars
  /\ UNCHANGED fs_vars
  /\ UNCHANGED cls_vars

\* a pull that finds i < total false: the generator returns
GenReturns ==
  /\ gen = "suspended"
  /\ ~(i < total)
  /\ gen' = "done"
  /\ UNCHANGED <<target, total, current, i, yielded, rules>>

GenReturn ==
  /\ GenReturns
  /\ UNCHANGED call_vars
  /\ UNCHANGED helper_vars
  /\ UNCHANGED fs_vars
  /\ UNCHANGED cls_vars

Next == Call \/ GenNext \/ GenThrow \/ GenReturn

Spec == Init /\ [][Next]_vars

\* the convergence run: target {train: 7, test: 2, val: 1}
InitConv == InitGen({ConvTarget}, {ConvTotal})

NextConv == GenNext \/ GenReturn

SpecConv == InitConv /\ [][NextConv]_vars

(***************************************************************************)
(* exportDatasetHelper and the way exportCocoDataset calls it              *)
(* (src/src/export.ts)                                                     *)
(***************************************************************************)
\* largest number of samples of an export run
MaxSamples == 3

\* largest number of samples of a run that looks at the per-class buckets
MaxBucket == 7

ClassNames == {"cat", "dog"}

\* sample.groupType: GroupType | ""
SampleTags == GroupType \cup {""}

\* the fields of a sample the helper and the dispatchers read
Samples == [categoryName : ClassNames, groupType : SampleTags]

\* samples that differ in their class only
BucketSamples == [categoryName : ClassNames, groupType : {"train"}]

ExportRatios ==
  { [train |-> 1, test |-> 1, val |-> 0],
    [train |-> 2, test |-> 1, val |-> 1],
    [train |-> 0, test |-> 1, val |-> 1] }

BucketRatios ==
  { [train |-> 1, test |-> 1, val |-> 0],
    [train |-> 2, test |-> 1, val |-> 1],
    [train |-> 1, test |-> 1, val |-> 1] }

\* Two overrides a caller may pass as dispatchGroup: "byClass" sends every
\* cat to val and every dog to test; "ownGroup" keeps the group the sample
\* has and throws for a sample that has none.
CustomDispatchers == {"byClass", "ownGroup"}

\* customDispatchGroup(sample)
customDispatch(name, sample) ==
  IF name = "byClass"
  THEN [kind  |-> "ok",
        group |-> IF sample.categoryName = "cat" THEN "val" ELSE "test"]
  ELSE IF sample.groupType = ""
       THEN [kind |-> "error", group |-> "none"]
       ELSE [kind |-> "ok", group |-> sample.groupType]

\* variant: the ratio is looked at before the override
dispatchGroupToCallRatioFirst ==
  IF groupRatio # {} THEN "ratio"
  ELSE IF customDispatchGroup # "none" THEN "custom"
  ELSE "undefined"

\* which function exportCocoDataset hands to the helper
dispatchGroupToCall ==
  IF customDispatchGroup # "none" THEN "custom"
  ELSE IF groupRatio # {} THEN "ratio"
  ELSE "undefined"

\* dispatchGroup({ sample, current }) as the helper calls it: the outcome
\* (kind, group) and current, the class's counts object as the call leaves it
CallDispatch(fn, sample, counts) ==
  IF fn = "custom"
  THEN [kind    |-> customDispatch(customDispatchGroup, sample).kind,
        group   |-> customDispatch(customDispatchGroup, sample).group,
        current |-> counts]
  ELSE dispatchGroup(counts, CHOOSE t \in groupRatio : TRUE)

\* variant: one table for all classes
class_name_shared(sample) == "all"

\* const class_name = sample.categoryName
class_name(sample) == sample.categoryName

\* variant: = instead of ??=, the class's counts start over
EnsureClassAlways(table, name) ==
  [c \in DOMAIN table \cup {name} |->
     IF c = name THEN ZeroCounts ELSE table[c]]

\* currentRatioByClass[class_name] ??= { train: 0, val: 0, test: 0 }
EnsureClass(table, name) ==
  IF name \in DOMAIN table THEN table ELSE table @@ (name :> ZeroCounts)

\* variant: the counter is left alone
CountUpMissing(counts, groupType) == counts

\* current[groupType]++
CountUp(counts, groupType) == [counts EXCEPT ![groupType] = @ + 1]

\* variant: every sample is sent to train
OwnGroupTrain(sample) == "train"

\* groupType = sample.groupType as GroupType
OwnGroup(sample) == sample.groupType

\* groupType = dispatchGroup(...); current[groupType]++ : the table after
\* the call r on the counts of class name, the increment skipped when the
\* call threw
Counted(table, name, r) ==
  IF r.kind = "ok"
  THEN [kind  |-> "ok", group |-> r.group,
        table |-> [table EXCEPT ![name] = CountUp(r.current, r.group)]]
  ELSE [kind  |-> "error", group |-> r.group,
        table |-> [table EXCEPT ![name] = r.current]]

\* The first half of an iteration: the group of the sample, or the error
\* thrown, and currentRatioByClass afterwards.
Dispatched(fn, sample, table) ==
  IF fn = "undefined"
  THEN [kind |-> "ok", group |-> OwnGroup(sample), table |-> table]
  ELSE Counted(EnsureClass(table, class_name(sample)), class_name(sample),
               CallDispatch(fn, sample,
                            EnsureClass(table, class_name(sample))[class_name(sample)]))

\* groupTypes.includes(groupType)
Includes(seq, x) == \E k \in 1..Len(seq) : seq[k] = x

\* variant: the group is pushed without looking
PushAlways(seq, groupType) == Append(seq, groupType)

\* if (!groupTypes.includes(groupType)) groupTypes.push(groupType)
PushGroup(seq, groupType) ==
  IF Includes(seq, groupType) THEN seq ELSE Append(seq, groupType)

\* variant: the sample is saved with the group it came with
SaveCallOwnGroup(calls, sample, groupType) ==
  Append(calls, [sample |-> sample, groupType |-> sample.groupType])

\* saveSample({ sample, groupType }): the calls made so far
SaveCall(calls, sample, groupType) ==
  Append(calls, [sample |-> sample, groupType |-> groupType])

\* variant: saveSample is called without await
SaveNotAwaited == "loop"

\* await saveSample(...): where the helper is after making the call
SaveAwaited == "saving"

\* variant: a rejection of saveSample is caught and the loop goes on
SaveRejectionCaught(err) == [pc |-> "loop", error |-> NoError]

\* a rejection of saveSample is not caught: the helper's promise is
\* rejected with the same error
SaveRejection(err) == [pc |-> "rejected", error |-> err]

\* variant: an error thrown by the dispatcher is caught, the sample skipped
DispatchThrowCaught(err) == [pc |-> "loop", error |-> NoError]

\* an error thrown by the dispatcher is not caught either
DispatchThrow(err) == [pc |-> "rejected", error |-> err]

\* exportCocoDataset(args) has called exportDatasetHelper, which has got
\* the iterator and set up its locals
InitHelper(customs, ratios, hooks) ==
  /\ customDispatchGroup \in customs
  /\ groupRatio \in ratios
  /\ createDirsAndMetadata \in hooks
  /\ h_pc = "loop"
  /\ groupTypes = <<>>
  /\ currentRatioByClass = <<>>
  /\ pulled = <<>>
  /\ chosen = <<>>
  /\ saved = <<>>
  /\ inflight = {}
  /\ finalized = <<>>
  /\ hook = "none"
  /\ failure = NoError
  /\ h_error = NoError
  /\ NoCall
  /\ NoGen
  /\ NoClassify

\* One iteration of the loop up to the call of saveSample: the iterator
\* produces a sample, the sample is dispatched, counted and handed to the sink.
Iterate(samples, limit) ==
  /\ h_pc = "loop"
  /\ Len(pulled) < limit
  /\ \E sample \in samples :
     \E d \in {Dispatched(dispatchGroupToCall, sample, currentRatioByClass)} :
         /\ d.kind = "ok"
         /\ pulled' = Append(pulled, sample)
         /\ currentRatioByClass' = d.table
         /\ chosen' = Append(chosen, d.group)
         /\ groupTypes' = PushGroup(groupTypes, d.group)
         /\ saved' = SaveCall(saved, sample, d.group)
         /\ inflight' = inflight \cup {Len(saved) + 1}
  /\ h_pc' = SaveAwaited
  /\ UNCHANGED <<finalized, hook, failure, h_error>>
  /\ UNCHANGED args_vars
  /\ UNCHANGED call_vars
  /\ UNCHANGED gen_vars
  /\ UNCHANGED cls_vars

\* The iteration with a sink that is left abstract: the call is recorded in
\* saved and no file is touched until the sink settles.
HelperPull(samples, limit) ==
  /\ Iterate(samples, limit)
  /\ UNCHANGED fs_vars

\* The iterator produces a sample and the dispatcher throws for it.
HelperPullThrows(samples, limit) ==
  /\ h_pc = "loop"
  /\ Len(pulled) < limit
  /\ \E sample \in samples :
     \E d \in {Dispatched(dispatchGroupToCall, sample, currentRatioByClass)} :
         /\ d.kind = "error"
         /\ pulled' = Append(pulled, sample)
         /\ currentRatioByClass' = d.table
         /\ failure' = [kind |-> "dispatch", at |-> Len(pulled) + 1]
         /\ h_pc' = DispatchThrow(failure').pc
         /\ h_error' = DispatchThrow(failure').error
  /\ UNCHANGED <<groupTypes, chosen, saved, inflight, finalized, hook>>
  /\ UNCHANGED args_vars
  /\ UNCHANGED call_vars
  /\ UNCHANGED gen_vars
  /\ UNCHANGED fs_vars
  /\ UNCHANGED cls_vars

\* A call of saveSample is fulfilled; the helper, if it awaits, goes on.
SaveResolve ==
  /\ \E c \in inflight : inflight' = inflight \ {c}
  /\ h_pc' = IF h_pc = "saving" THEN "loop" ELSE h_pc
  /\ UNCHANGED <<groupTypes, currentRatioByClass, pulled, chosen, saved,
                 finalized, hook, failure, h_error>>
  /\ UNCHANGED args_vars
  /\ UNCHANGED call_vars
  /\ UNCHANGED gen_vars
  /\ UNCHANGED fs_vars
  /\ UNCHANGED cls_vars

\* A call of saveSample is rejected.
SaveReject ==
  /\ failure = NoError
  /\ \E c \in inflight :
         /\ inflight' = inflight \ {c}
         /\ failure' = [kind |-> "save", at |-> c]
  /\ IF h_pc = "saving"
     THEN /\ h_pc' = SaveRejection(failure').pc
          /\ h_error' = SaveRejection(failure').error
     ELSE UNCHANGED <<h_pc, h_error>>
  /\ UNCHANGED <<groupTypes, currentRatioByClass, pulled, chosen, saved,
                 finalized, hook>>
  /\ UNCHANGED args_vars
  /\ UNCHANGED call_vars
  /\ UNCHANGED gen_vars
  /\ UNCHANGED fs_vars
  /\ UNCHANGED cls_vars

\* await createDirsAndMetadata(groupTypes): where the helper is after
\* making the call
FinalizeAwaited == "finalizing"

\* The iterator is done: the hook, if given, is called with groupTypes and
\* awaited.
HelperExhausted ==
  /\ h_pc = "loop"
  /\ finalized' = IF createDirsAndMetadata THEN Append(finalized, groupTypes)
                                           ELSE finalized
  /\ hook' = IF createDirsAndMetadata THEN "pending" ELSE hook
  /\ h_pc' = IF createDirsAndMetadata THEN FinalizeAwaited ELSE "done"
  /\ UNCHANGED <<groupTypes, currentRatioByClass, pulled, chosen, saved,
                 inflight, failure, h_error>>
  /\ UNCHANGED args_vars
  /\ UNCHANGED call_vars
  /\ UNCHANGED gen_vars
  /\ UNCHANGED fs_vars
  /\ UNCHANGED cls_vars

\* The iterator is done in the helper of tmp.ts: the hook, if given, is
\* called with group_types and not awaited, and the helper returns.
TmpHelperExhausted ==
  /\ h_pc = "loop"
  /\ finalized' = IF createDirsAndMetadata THEN Append(finalized, groupTypes)
                                           ELSE finalized
  /\ hook' = IF createDirsAndMetadata THEN "pending" ELSE hook
  /\ h_pc' = "done"
  /\ UNCHANGED <<groupTypes, currentRatioByClass, pulled, chosen, saved,
                 inflight, failure, h_error>>
  /\ UNCHANGED args_vars
  /\ UNCHANGED call_vars
  /\ UNCHANGED gen_vars
  /\ UNCHANGED fs_vars
  /\ UNCHANGED cls_vars

\* The hook's promise is fulfilled; the helper, if it awaits it, returns.
FinalizeResolve ==
  /\ hook = "pending"
  /\ hook' = "fulfilled"
  /\ h_pc' = IF h_pc = "finalizing" THEN "done" ELSE h_pc
  /\ UNCHANGED <<groupTypes, currentRatioByClass, pulled, chosen, saved,
                 inflight, finalized, failure, h_error>>
  /\ UNCHANGED args_vars
  /\ UNCHANGED call_vars
  /\ UNCHANGED gen_vars
  /\ UNCHANGED fs_vars
  /\ UNCHANGED cls_vars

\* The hook's promise is rejected; the helper, if it awaits it, is rejected
\* with the same error, else nobody handles the rejection.
FinalizeReject ==
  /\ hook = "pending"
  /\ hook' = "rejected"
  /\ failure' = [kind |-> "finalize", at |-> 0]
  /\ IF h_pc = "finalizing"
     THEN /\ h_pc' = "rejected"
          /\ h_error' = failure'
     ELSE UNCHANGED <<h_pc, h_error>>
  /\ UNCHANGED <<groupTypes, currentRatioByClass, pulled, chosen, saved,
                 inflight, finalized>>
  /\ UNCHANGED args_vars
  /\ UNCHANGED call_vars
  /\ UNCHANGED gen_vars
  /\ UNCHANGED fs_vars
  /\ UNCHANGED cls_vars

\* export runs of at most MaxSamples samples, with every combination of
\* override, ratio and hook
InitExport ==
  /\ InitHelper(CustomDispatchers \cup {"none"},
                {{}} \cup {{t} : t \in ExportRatios},
                BOOLEAN)
  /\ NoFs

NextExport ==
  \/ HelperPull(Samples, MaxSamples)
  \/ HelperPullThrows(Samples, MaxSamples)
  \/ SaveResolve
  \/ SaveReject
  \/ HelperExhausted
  \/ FinalizeResolve
  \/ FinalizeReject

SpecExport == InitExport /\ [][NextExport]_vars

\* ratio-driven runs of at most MaxBucket samples of two classes, in which
\* no callback fails
InitBucket ==
  /\ InitHelper({"none"}, {{t} : t \in BucketRatios}, {TRUE})
  /\ NoFs

NextBucket ==
  \/ HelperPull(BucketSamples, MaxBucket)
  \/ SaveResolve
  \/ HelperExhausted
  \/ FinalizeResolve

SpecBucket == InitBucket /\ [][NextBucket]_vars

\* the same runs as of InitExport, made by the helper of tmp.ts
NextTmp ==
  \/ HelperPull(Samples, MaxSamples)
  \/ HelperPullThrows(Samples, MaxSamples)
  \/ SaveResolve
  \/ SaveReject
  \/ TmpHelperExhausted
  \/ FinalizeResolve
  \/ FinalizeReject

SpecTmp == InitExport /\ [][NextTmp]_vars

\* What the body of the generator's loop does with the outcome r of its
\* call of dispatchGroup: current[group_type]++; yield group_type
GenIterate(st, r) ==
  [current |-> Increment(r.current, r.group),
   yielded |-> Append(st.yielded, r.group)]

\* one iteration of the generator's loop
GenStep(st, t) == GenIterate(st, dispatchGroup(st.current, t))

\* The generator pulled n times with a valid target t: its counts and the
\* groups it has yielded.
RECURSIVE GenRun(_, _)
GenRun(t, n) ==
  IF n = 0 THEN [current |-> ZeroCounts, yielded |-> <<>>]
  ELSE GenStep(GenRun(t, n - 1), t)

\* [...genDispatchGroupSequence({ target: t, total: n })]
genDispatchGroupSequence(t, n) == GenRun(t, n).yielded

(***************************************************************************)
(* cachedMkdir (fs.ts) and the runs that call it directly.                 *)
(***************************************************************************)

\* largest number of calls of cachedMkdir in a process
MaxMkdir == 4

\* largest number of export runs in a process
MaxRuns == 2

\* join(export_dataset_dir, group_type, "images" | "labels")
DestDirs == GroupType \X {"images", "labels"}

\* the directories the direct calls are made for
MkdirDirs == {<<"train", "images">>, <<"train", "labels">>}

\* variant: the cache is not looked at
CachedHitNever(cache, dir) == FALSE

\* created_dirs.has(dir)
CachedHit(cache, dir) == dir \in cache

\* created_dirs.add(dir)
CacheAdd(cache, dir) == cache \cup {dir}

\* the calls of cachedMkdir that are awaiting mkdir
Pending(log) == {k \in 1..Len(log) : log[k].result = "pending"}

\* the log after a call of cachedMkdir(dir) has run up to its return (the
\* directory is in the cache) or its await of mkdir
Called(log, cache, dir, run) ==
  Append(log, [dir    |-> dir,
               result |-> IF CachedHit(cache, dir) THEN "cached" ELSE "pending",
               run    |-> run])

\* An export run starts.  created_dirs is set when the module is loaded and
\* by cachedMkdir only; a run does not touch it.
NextRun ==
  /\ cls_pc = "absent"
  /\ h_pc = "absent"
  /\ Pending(mk_log) = {}
  /\ mk_run < MaxRuns
  /\ mk_run' = mk_run + 1
  /\ UNCHANGED <<created_dirs, mk_log, overlapped, files, save_step>>
  /\ UNCHANGED call_vars
  /\ UNCHANGED gen_vars
  /\ UNCHANGED helper_vars
  /\ UNCHANGED cls_vars

\* cachedMkdir(dir) is called and runs up to its return or its await.
CachedMkdir ==
  /\ cls_pc = "absent"
  /\ h_pc = "absent"
  /\ mk_run >= 1
  /\ Len(mk_log) < MaxMkdir
  /\ \E dir \in MkdirDirs :
         mk_log' = Called(mk_log, created_dirs, dir, mk_run)
  /\ overlapped' = (overlapped \/ Pending(mk_log) # {})
  /\ UNCHANGED <<created_dirs, mk_run, files, save_step>>
  /\ UNCHANGED call_vars
  /\ UNCHANGED gen_vars
  /\ UNCHANGED helper_vars
  /\ UNCHANGED cls_vars

\* mkdir succeeds: the call goes on and adds the directory to the cache.
MkdirResolve ==
  /\ cls_pc = "absent"
  /\ h_pc = "absent"
  /\ \E k \in Pending(mk_log) :
         /\ mk_log' = [mk_log EXCEPT ![k].result = "ok"]
         /\ created_dirs' = CacheAdd(created_dirs, mk_log[k].dir)
  /\ UNCHANGED <<overlapped, mk_run, files, save_step>>
  /\ UNCHANGED call_vars
  /\ UNCHANGED gen_vars
  /\ UNCHANGED helper_vars
  /\ UNCHANGED cls_vars

\* mkdir fails: the await throws and the call ends before created_dirs.add.
MkdirReject ==
  /\ cls_pc = "absent"
  /\ h_pc = "absent"
  /\ \E k \in Pending(mk_log) :
         mk_log' = [mk_log EXCEPT ![k].result = "failed"]
  /\ UNCHANGED <<created_dirs, overlapped, mk_run, files, save_step>>
  /\ UNCHANGED call_vars
  /\ UNCHANGED gen_vars
  /\ UNCHANGED helper_vars
  /\ UNCHANGED cls_vars

\* a process in which up to MaxRuns runs make up to MaxMkdir calls of
\* cachedMkdir, overlapping or not
InitMkdir == NoCall /\ NoGen /\ NoHelper /\ NoFs /\ NoClassify

NextMkdir == NextRun \/ CachedMkdir \/ MkdirResolve \/ MkdirReject

SpecMkdir == InitMkdir /\ [][NextMkdir]_vars

(***************************************************************************)
(* The YOLO export of tmp.ts: exportDataset runs the helper with the sink   *)
(* save_sample, which copies the image of a sample and writes or appends    *)
(* the label of its box.  A call of save_sample is suspended at each of its *)
(* four awaits; save_step[c].stage names the await call c is at.  A path is *)
(* the tuple of its parts below the export directory, the content of a      *)
(* label file the sequence of the strings written to it.                    *)
(***************************************************************************)
MaxLabel == 3

\* the image file names of the import directory: name and extension
ImageFilenames ==
  { [name |-> "a", ext |-> ".jpg"],
    [name |-> "a", ext |-> ".png"],
    [name |-> "b", ext |-> ".jpg"] }

\* what generate_sample_sequence() yields as its n-th sample: a box of some
\* image of some group; the box is named by n
YoloSamples(n) ==
  { [categoryName |-> "cat", groupType |-> g, filename |-> f, box |-> n] :
      g \in {"train", "test"}, f \in ImageFilenames }

YoloRatios == { [train |-> 1, test |-> 1, val |-> 0] }

\* basename(image_filename, extname(image_filename)) + ".txt"
label_filename(image_filename) == [name |-> image_filename.name, ext |-> ".txt"]

images_dest_dir(group_type) == <<group_type, "images">>

labels_dest_dir(group_type) == <<group_type, "labels">>

image_dest_path(group_type, image_filename) ==
  <<group_type, "images", image_filename>>

label_dest_path(group_type, image_filename) ==
  <<group_type, "labels", label_filename(image_filename)>>

\* join(export_dataset_dir, "data.yaml")
yaml_path == <<"", "", [name |-> "data", ext |-> ".yaml"]>>

\* toDetectLabelString(box) / toPoseLabelString(box): one line, a different
\* one for each box
label_str(sample) == ToString(sample.box)

\* the bytes of an image of the import directory, named by where it is
ImageOf(group_type, image_filename) ==
  <<group_type, image_filename.name, image_filename.ext>>

\* toDataYamlString(task, metadata)
DataYaml == <<"data.yaml">>

existsSync(fs, path) == path \in DOMAIN fs

writeFile(fs, path, data) ==
  [p \in DOMAIN fs \cup {path} |-> IF p = path THEN data ELSE fs[p]]

appendFile(fs, path, data) ==
  writeFile(fs, path, IF existsSync(fs, path) THEN fs[path] \o data ELSE data)

\* copyFile(image_src_path, image_dest_path)
copyFile(fs, group_type, image_filename, dest) ==
  writeFile(fs, dest, ImageOf(group_type, image_filename))

Step(stage, mk, op) == [stage |-> stage, mk |-> mk, op |-> op]

\* the calls of save_sample that are left when call c has ended
Ended(steps, c) == [k \in DOMAIN steps \ {c} |-> steps[k]]

\* call k of cachedMkdir returns to its caller: a pending mkdir has
\* succeeded, a cache hit had nothing to wait for
MkdirReturned(log, k) ==
  IF log[k].result = "pending" THEN [log EXCEPT ![k].result = "ok"] ELSE log

MkdirCached(cache, log, k) ==
  IF log[k].result = "pending" THEN CacheAdd(cache, log[k].dir) ELSE cache

\* await cachedMkdir(dir) from its call to its return, nothing in between
MkdirAwaited(st, dir, run) ==
  [log   |-> Append(st.log,
                    [dir    |-> dir,
                     result |-> IF CachedHit(st.cache, dir) THEN "cached"
                                                            ELSE "ok",
                     run    |-> run]),
   cache |-> IF CachedHit(st.cache, dir) THEN st.cache
                                         ELSE CacheAdd(st.cache, dir)]

RECURSIVE MkdirAll(_, _, _)
MkdirAll(st, dirs, run) ==
  IF dirs = <<>> THEN st
  ELSE MkdirAll(MkdirAwaited(st, Head(dirs), run), Tail(dirs), run)

\* the directories create_dirs_and_data_yaml makes, in the order it makes
\* them: images and labels of each group type
HookDirs(gts) ==
  [k \in 1..(2 * Len(gts)) |->
     IF k % 2 = 1 THEN images_dest_dir(gts[(k + 1) \div 2])
                  ELSE labels_dest_dir(gts[k \div 2])]

\* An iteration of the helper's loop: save_sample is called and runs up to
\* its first await, of cachedMkdir(images_dest_dir).
YoloPull ==
  /\ Iterate(YoloSamples(Len(pulled) + 1), MaxLabel)
  /\ mk_log' = Called(mk_log, created_dirs,
                      images_dest_dir(saved'[Len(saved')].groupType), mk_run)
  /\ overlapped' = (overlapped \/ Pending(mk_log) # {})
  /\ save_step' = save_step @@
                    (Len(saved') :> Step("mkdir_images", Len(mk_log'), "none"))
  /\ UNCHANGED <<created_dirs, mk_run, files>>

\* cachedMkdir(images_dest_dir) returns; copyFile is called.
YoloImagesDirMade ==
  /\ \E c \in DOMAIN save_step :
         /\ save_step[c].stage = "mkdir_images"
         /\ mk_log' = MkdirReturned(mk_log, save_step[c].mk)
         /\ created_dirs' = MkdirCached(created_dirs, mk_log, save_step[c].mk)
         /\ save_step' = [save_step EXCEPT ![c] = Step("copy", 0, "none")]
  /\ UNCHANGED <<overlapped, mk_run, files>>
  /\ UNCHANGED helper_vars
  /\ UNCHANGED call_vars
  /\ UNCHANGED gen_vars
  /\ UNCHANGED cls_vars

\* copyFile has copied the image; cachedMkdir(labels_dest_dir) is called.
YoloCopied ==
  /\ \E c \in DOMAIN save_step :
         /\ save_step[c].stage = "copy"
         /\ files' = copyFile(files, saved[c].sample.groupType,
                              saved[c].sample.filename,
                              image_dest_path(saved[c].groupType,
                                              saved[c].sample.filename))
         /\ mk_log' = Called(mk_log, created_dirs,
                             labels_dest_dir(saved[c].groupType), mk_run)
         /\ save_step' = [save_step EXCEPT
                            ![c] = Step("mkdir_labels", Len(mk_log'), "none")]
  /\ overlapped' = (overlapped \/ Pending(mk_log) # {})
  /\ UNCHANGED <<created_dirs, mk_run>>
  /\ UNCHANGED helper_vars
  /\ UNCHANGED call_vars
  /\ UNCHANGED gen_vars
  /\ UNCHANGED cls_vars

\* cachedMkdir(labels_dest_dir) returns; the label string is made,
\* existsSync(label_dest_path) decides between writeFile and appendFile, and
\* the one chosen is called.
YoloLabelsDirMade ==
  /\ \E c \in DOMAIN save_step :
         /\ save_step[c].stage = "mkdir_labels"
         /\ mk_log' = MkdirReturned(mk_log, save_step[c].mk)
         /\ created_dirs' = MkdirCached(created_dirs, mk_log, save_step[c].mk)
         /\ save_step' =
              [save_step EXCEPT
                 ![c] = Step("label", 0,
                             IF existsSync(files,
                                           label_dest_path(
                                             saved[c].groupType,
                                             saved[c].sample.filename))
                             THEN "append" ELSE "write")]
  /\ UNCHANGED <<overlapped, mk_run, files>>
  /\ UNCHANGED helper_vars
  /\ UNCHANGED call_vars
  /\ UNCHANGED gen_vars
  /\ UNCHANGED cls_vars

\* writeFile or appendFile has written the label; save_sample returns and
\* the helper, if it awaits, goes on.
YoloLabelWritten ==
  /\ \E c \in DOMAIN save_step :
         /\ save_step[c].stage = "label"
         /\ files' =
              IF save_step[c].op = "write"
              THEN writeFile(files,
                             label_dest_path(saved[c].groupType,
                                             saved[c].sample.filename),
                             <<label_str(saved[c].sample)>>)
              ELSE appendFile(files,
                              label_dest_path(saved[c].groupType,
                                              saved[c].sample.filename),
                              <<"\n", label_str(saved[c].sample)>>)
         /\ save_step' = Ended(save_step, c)
         /\ inflight' = inflight \ {c}
  /\ h_pc' = IF h_pc = "saving" THEN "loop" ELSE h_pc
  /\ UNCHANGED <<groupTypes, currentRatioByClass, pulled, chosen, saved,
                 finalized, hook, failure, h_error>>
  /\ UNCHANGED <<created_dirs, mk_log, overlapped, mk_run>>
  /\ UNCHANGED args_vars
  /\ UNCHANGED call_vars
  /\ UNCHANGED gen_vars
  /\ UNCHANGED cls_vars

\* The file operation a call of save_sample awaits fails: save_sample
\* rejects.  A cachedMkdir that found its directory in the cache cannot fail.
YoloSaveFails ==
  /\ failure = NoError
  /\ \E c \in DOMAIN save_step :
         /\ save_step[c].mk # 0 => mk_log[save_step[c].mk].result = "pending"
         /\ mk_log' = IF save_step[c].mk # 0
                      THEN [mk_log EXCEPT ![save_step[c].mk].result = "failed"]
                      ELSE mk_log
         /\ save_step' = Ended(save_step, c)
         /\ inflight' = inflight \ {c}
         /\ failure' = [kind |-> "save", at |-> c]
  /\ IF h_pc = "saving"
     THEN /\ h_pc' = SaveRejection(failure').pc
          /\ h_error' = SaveRejection(failure').error
     ELSE UNCHANGED <<h_pc, h_error>>
  /\ UNCHANGED <<groupTypes, currentRatioByClass, pulled, chosen, saved,
                 finalized, hook>>
  /\ UNCHANGED <<created_dirs, overlapped, mk_run, files>>
  /\ UNCHANGED args_vars
  /\ UNCHANGED call_vars
  /\ UNCHANGED gen_vars
  /\ UNCHANGED cls_vars

\* create_dirs_and_data_yaml(group_types) has run to its end: the
\* directories of every group type are made, data.yaml is written.
YoloHookDone ==
  /\ hook = "pending"
  /\ hook' = "fulfilled"
  /\ \E r \in {MkdirAll([log |-> mk_log, cache |-> created_dirs],
                        HookDirs(groupTypes), mk_run)} :
         /\ mk_log' = r.log
         /\ created_dirs' = r.cache
  /\ overlapped' = (overlapped \/ (groupTypes # <<>> /\ Pending(mk_log) # {}))
  /\ files' = writeFile(files, yaml_path, DataYaml)
  /\ UNCHANGED <<mk_run, save_step>>
  /\ UNCHANGED <<h_pc, groupTypes, currentRatioByClass, pulled, chosen, saved,
                 inflight, finalized, failure, h_error>>
  /\ UNCHANGED args_vars
  /\ UNCHANGED call_vars
  /\ UNCHANGED gen_vars
  /\ UNCHANGED cls_vars

\* the first export run of the process, of at most MaxLabel boxes, into an
\* empty export directory
InitYolo ==
  /\ InitHelper({"none"}, {{}} \cup {{t} : t \in YoloRatios}, {TRUE})
  /\ created_dirs = {}
  /\ mk_log = <<>>
  /\ overlapped = FALSE
  /\ mk_run = 1
  /\ files = <<>>
  /\ save_step = <<>>

NextYolo ==
  \/ YoloPull
  \/ YoloImagesDirMade
  \/ YoloCopied
  \/ YoloLabelsDirMade
  \/ YoloLabelWritten
  \/ YoloSaveFails
  \/ TmpHelperExhausted
  \/ YoloHookDone
  \/ FinalizeReject

SpecYolo == InitYolo /\ [][NextYolo]_vars

(***************************************************************************)
(* The classify export (fs.ts): exportClassifyDataset called with a         *)
(* group_ratio and without a dispatch_group makes the class directories     *)
(* (mkdirAndUpdateMetadataPathsForClassify) and then copies the images      *)
(* (exportRedistributedClassifyDataset).  A file is the tuple of its group  *)
(* type, class name and file name.                                          *)
(***************************************************************************)

\* largest number of images of a class in a source group
MaxImages == 2

\* group_types of ./group: the three splits
all_group_types == <<"train", "test", "val">>

ClassifyRatios ==
  { [train |-> 1, test |-> 1, val |-> 0],
    [train |-> 2, test |-> 1, val |-> 1],
    [train |-> 1, test |-> 0, val |-> 1] }

\* the file names of a class directory: 1.jpg, 2.jpg, ...
Filenames(n) == [k \in 1..n |-> ToString(k) \o ".jpg"]

ClassEntry(cn, n) ==
  <<[class_name |-> cn, filenames |-> Filenames(n)]>>

\* what the group train holds: the classes cat and dog, each with up to
\* MaxImages images
TrainEntries ==
  {ClassEntry("cat", n) \o ClassEntry("dog", m) :
     n \in 0..MaxImages, m \in 0..MaxImages}

\* what the group test holds: the two classes in the other order, or the
\* class cat only
TestEntries ==
  {ClassEntry("dog", n) \o ClassEntry("cat", m) :
     n \in 0..MaxImages, m \in 0..MaxImages}
    \cup {ClassEntry("cat", n) : n \in 0..MaxImages}

\* classify_groups with the source groups train and test
ClassifyGroups ==
  { <<[group_type |-> "train", classes |-> c1],
      [group_type |-> "test", classes |-> c2]>> :
      c1 \in TrainEntries, c2 \in TestEntries }

\* the position of a class in the table, 0 if it has none
ClassAt(table, cn) ==
  IF \E p \in 1..Len(table) : table[p].class_name = cn
  THEN CHOOSE p \in 1..Len(table) : table[p].class_name = cn
  ELSE 0

\* class_name_to_images[class_name] ??= []
EnsureImages(table, cn) ==
  IF ClassAt(table, cn) # 0 THEN table
  ELSE Append(table, [class_name |-> cn, images |-> <<>>])

\* class_name_to_images[class_name].push({ group_type, filename }) for every
\* filename
PushImages(table, cn, group_type, filenames) ==
  [table EXCEPT ![ClassAt(table, cn)].images =
     @ \o [k \in 1..Len(filenames) |->
             [group_type |-> group_type, filename |-> filenames[k]]]]

\* the inner loop of the population, over the classes of one group
RECURSIVE PopulateGroup(_, _, _)
PopulateGroup(table, group_type, classes) ==
  IF classes = <<>> THEN table
  ELSE PopulateGroup(PushImages(EnsureImages(table, Head(classes).class_name),
                                Head(classes).class_name, group_type,
                                Head(classes).filenames),
                     group_type, Tail(classes))

\* the outer loop, over the groups
RECURSIVE Populate(_, _)
Populate(table, groups) ==
  IF groups = <<>> THEN table
  ELSE Populate(PopulateGroup(table, Head(groups).group_type,
                              Head(groups).classes),
                Tail(groups))

\* the class directories mkdirAndUpdateMetadataPathsForClassify makes when
\* it is given a group_ratio
ClassDirs(ratio, names) ==
  { <<all_group_types[k], c>> :
      k \in {n \in 1..Len(all_group_types) : ratio[all_group_types[n]] > 0},
      c \in names }

\* variant: always the first image of the class
ImageAtFirst(images, idx) == images[1]

\* images[image_idx]
ImageAt(images, idx) == images[idx + 1]

\* join(export_dataset_dir, "data.yaml")
classify_yaml_path == <<"", "", "data.yaml">>

\* the call of copyFile made for the image at image_idx
CopyCall(cn, image, dest_group_type) ==
  [src  |-> <<image.group_type, cn, image.filename>>,
   dest |-> <<dest_group_type, cn, image.filename>>]

\* mkdirAndUpdateMetadataPathsForClassify has made the directories;
\* exportRedistributedClassifyDataset is called and fills
\* class_name_to_images.
ClsDirsMade ==
  /\ cls_pc = "mkdirs"
  /\ dirs_made' = ClassDirs(group_ratio, class_names)
  /\ class_name_to_images' = Populate(<<>>, classify_groups)
  /\ cls_pc' = "classes"
  /\ UNCHANGED <<group_ratio, class_names, classify_groups, class_idx,
                 image_idx, copied>>
  /\ UNCHANGED call_vars
  /\ UNCHANGED gen_vars
  /\ UNCHANGED helper_vars
  /\ UNCHANGED fs_vars

\* a mkdir fails: the export is rejected before anything is copied
ClsMkdirFails ==
  /\ cls_pc = "mkdirs"
  /\ ClassDirs(group_ratio, class_names) # {}
  /\ cls_pc' = "rejected"
  /\ UNCHANGED <<group_ratio, class_names, classify_groups,
                 class_name_to_images, class_idx, image_idx, copied, dirs_made>>
  /\ UNCHANGED call_vars
  /\ UNCHANGED gen_vars
  /\ UNCHANGED helper_vars
  /\ UNCHANGED fs_vars

\* The loop over the classes takes the next class: its generator is made,
\* with total = images.length, and image_idx is set to 0.
ClsNextClass ==
  /\ cls_pc = "classes"
  /\ class_idx < Len(class_name_to_images)
  /\ class_idx' = class_idx + 1
  /\ gen' = "suspended"
  /\ target' = group_ratio
  /\ total' = Len(class_name_to_images[class_idx'].images)
  /\ current' = ZeroCounts
  /\ i' = 0
  /\ yielded' = <<>>
  /\ rules' = <<>>
  /\ image_idx' = 0
  /\ cls_pc' = "images"
  /\ UNCHANGED <<group_ratio, class_names, classify_groups,
                 class_name_to_images, copied, dirs_made>>
  /\ UNCHANGED call_vars
  /\ UNCHANGED helper_vars
  /\ UNCHANGED fs_vars

\* The loop over group_seq pulls the generator, which yields: the image at
\* image_idx is taken, image_idx goes up and copyFile is called.
ClsPull ==
  /\ cls_pc = "images"
  /\ GenYields
  /\ copied' = Append(copied,
                      CopyCall(class_name_to_images[class_idx].class_name,
                               ImageAt(class_name_to_images[class_idx].images,
                                       image_idx),
                               yielded'[Len(yielded')]))
  /\ image_idx' = image_idx + 1
  /\ cls_pc' = "copying"
  /\ UNCHANGED <<group_ratio, class_names, classify_groups,
                 class_name_to_images, class_idx, dirs_made>>
  /\ UNCHANGED call_vars
  /\ UNCHANGED helper_vars
  /\ UNCHANGED fs_vars

\* The pull throws: the export is rejected.
ClsPullThrows ==
  /\ cls_pc = "images"
  /\ GenThrows
  /\ cls_pc' = "rejected"
  /\ UNCHANGED <<group_ratio, class_names, classify_groups,
                 class_name_to_images, class_idx, image_idx, copied, dirs_made>>
  /\ UNCHANGED call_vars
  /\ UNCHANGED helper_vars
  /\ UNCHANGED fs_vars

\* The generator returns: the loop over the classes goes on.
ClsPullDone ==
  /\ cls_pc = "images"
  /\ GenReturns
  /\ cls_pc' = "classes"
  /\ UNCHANGED <<group_ratio, class_names, classify_groups,
                 class_name_to_images, class_idx, image_idx, copied, dirs_made>>
  /\ UNCHANGED call_vars
  /\ UNCHANGED helper_vars
  /\ UNCHANGED fs_vars

\* copyFile has copied the image, which takes the destination directory to
\* exist.
ClsCopied ==
  /\ cls_pc = "copying"
  /\ <<copied[Len(copied)].dest[1], copied[Len(copied)].dest[2]>> \in dirs_made
  /\ files' = writeFile(files, copied[Len(copied)].dest,
                        copied[Len(copied)].src)
  /\ cls_pc' = "images"
  /\ UNCHANGED <<created_dirs, mk_log, overlapped, mk_run, save_step>>
  /\ UNCHANGED <<group_ratio, class_names, classify_groups,
                 class_name_to_images, class_idx, image_idx, copied, dirs_made>>
  /\ UNCHANGED call_vars
  /\ UNCHANGED gen_vars
  /\ UNCHANGED helper_vars

\* copyFile fails: the export is rejected.
ClsCopyFails ==
  /\ cls_pc = "copying"
  /\ cls_pc' = "rejected"
  /\ UNCHANGED <<group_ratio, class_names, classify_groups,
                 class_name_to_images, class_idx, image_idx, copied, dirs_made>>
  /\ UNCHANGED call_vars
  /\ UNCHANGED gen_vars
  /\ UNCHANGED helper_vars
  /\ UNCHANGED fs_vars

\* No class is left: exportRedistributedClassifyDataset returns,
\* saveYAMLFile is called without await and exportClassifyDataset returns.
ClsAllCopied ==
  /\ cls_pc = "classes"
  /\ ~(class_idx < Len(class_name_to_images))
  /\ cls_pc' = "done"
  /\ UNCHANGED <<group_ratio, class_names, classify_groups,
                 class_name_to_images, class_idx, image_idx, copied, dirs_made>>
  /\ UNCHANGED call_vars
  /\ UNCHANGED gen_vars
  /\ UNCHANGED helper_vars
  /\ UNCHANGED fs_vars

\* saveYAMLFile writes data.yaml.
ClsYamlSaved ==
  /\ cls_pc = "done"
  /\ ~existsSync(files, classify_yaml_path)
  /\ files' = writeFile(files, classify_yaml_path, <<"data.yaml">>)
  /\ UNCHANGED <<created_dirs, mk_log, overlapped, mk_run, save_step>>
  /\ UNCHANGED cls_vars
  /\ UNCHANGED call_vars
  /\ UNCHANGED gen_vars
  /\ UNCHANGED helper_vars

\* exportClassifyDataset is called with a group_ratio and the classes cat
\* and dog, into an empty export directory
InitClassify ==
  /\ group_ratio \in ClassifyRatios
  /\ class_names = ClassNames
  /\ classify_groups \in ClassifyGroups
  /\ class_name_to_images = <<>>
  /\ cls_pc = "mkdirs"
  /\ class_idx = 0
  /\ image_idx = 0
  /\ copied = <<>>
  /\ dirs_made = {}
  /\ NoCall
  /\ NoGen
  /\ NoHelper
  /\ NoFs

NextClassify ==
  \/ ClsDirsMade
  \/ ClsMkdirFails
  \/ ClsNextClass
  \/ ClsPull
  \/ ClsPullThrows
  \/ ClsPullDone
  \/ ClsCopied
  \/ ClsCopyFails
  \/ ClsAllCopied
  \/ ClsYamlSaved

SpecClassify == InitClassify /\ [][NextClassify]_vars

(***************************************************************************)
(* Notions the properties are stated with.  They are written from the      *)
(* statement of each property, in exact integer arithmetic, not from the    *)
(* code.                                                                    *)
(***************************************************************************)
ActiveSplits(t) == IF t["val"] = 0 THEN {"train", "test"} ELSE GroupType

ValidTarget(t) == \A s \in ActiveSplits(t) : t[s] > 0

TwoWayTarget(t) == t["val"] = 0 /\ t["train"] > 0 /\ t["test"] > 0

AllCounted(c, t) == \A s \in ActiveSplits(t) : c[s] > 0

Rank(s) == IF s = "train" THEN 1 ELSE IF s = "test" THEN 2 ELSE 3

SetSum(f, S) ==
  (IF "train" \in S THEN f["train"] ELSE 0)
  + (IF "test" \in S THEN f["test"] ELSE 0)
  + (IF "val" \in S THEN f["val"] ELSE 0)

\* The sum of squared deviations after adding one sample to S, multiplied
\* by the positive number ((total_current + 1) * total_target)^2, which is
\* the same for every S: sum over s of
\*   (simulated_count[s] * total_target - target[s] * (total_current + 1))^2
SqDev(c, t, S) ==
  LET A  == ActiveSplits(t)
      T  == SetSum(t, A)
      n1 == SetSum(c, A) + 1
      d  == [s \in GroupType |->
               IF s \in A
               THEN ((IF s = S THEN c[s] + 1 ELSE c[s]) * T - t[s] * n1)
                    * ((IF s = S THEN c[s] + 1 ELSE c[s]) * T - t[s] * n1)
               ELSE 0]
  IN  SetSum(d, A)

Minimizes(c, t, S) ==
  /\ S \in ActiveSplits(t)
  /\ \A s \in ActiveSplits(t) : SqDev(c, t, S) <= SqDev(c, t, s)

CallDone == call_pc \in {"returned", "threw"}

\* the counts of the groups in a sequence of yielded groups
CountsOf(seq) ==
  [g \in GroupType |-> Cardinality({k \in 1..Len(seq) : seq[k] = g})]

Abs(x) == IF x < 0 THEN 0 - x ELSE x

(***************************************************************************)
(* Properties                                                              *)
(***************************************************************************)

\* C1: steady-state rule.  A call with a valid target and all active counts
\* larger than 0 returns an active split that minimizes, over the active
\* splits, the sum of squared deviations between simulated and target
\* proportions.
C1_SteadyStateMinimizes ==
  (CallDone /\ ValidTarget(call_args.target)
            /\ AllCounted(call_args.current, call_args.target))
  => /\ call_pc = "returned"
     /\ Minimizes(call_args.current, call_args.target, call_ret.group)

\* a proportional decision for test, which strictly beats train
C1_Witness ==
  /\ call_pc = "returned"
  /\ call_ret.rule = "prop"
  /\ call_ret.group = "test"
  /\ call_args.target["val"] > 0
  /\ SqDev(call_args.current, call_args.target, "test")
       < SqDev(call_args.current, call_args.target, "train")

\* C2: cold-start rule.  A call with a valid target and some active count
\* equal to 0 returns the first zero-count active split in the order
\* train, test, val, whatever the counts of the splits before it.
C2_ColdStartFirstZero ==
  (CallDone /\ ValidTarget(call_args.target)
            /\ ~AllCounted(call_args.current, call_args.target))
  => /\ call_pc = "returned"
     /\ call_ret.group \in ActiveSplits(call_args.target)
     /\ call_args.current[call_ret.group] = 0
     /\ \A s \in ActiveSplits(call_args.target) :
          call_args.current[s] = 0 => Rank(call_ret.group) <= Rank(s)

\* test returned although train has a count, and val is empty too
C2_Witness ==
  /\ call_pc = "returned"
  /\ call_ret.group = "test"
  /\ call_args.current["train"] > 1
  /\ call_args.current["val"] = 0
  /\ call_args.target["val"] > 0

\* C3: cold-start ordering.  With a valid target the first N groups the
\* generator yields are train, test and (if active) val, in this order, each
\* decided by the zero-count branch, N being the number of active splits.
C3_ColdStartOrdering ==
  (gen # "absent" /\ ValidTarget(target))
  => \A k \in 1..Len(yielded) :
       k <= Cardinality(ActiveSplits(target))
       => /\ Rank(yielded[k]) = k
          /\ rules[k] = "cold"

C3_Witness ==
  /\ gen = "suspended"
  /\ target["val"] > 0
  /\ Len(yielded) > 3
  /\ SubSeq(yielded, 1, 3) = <<"train", "test", "val">>

\* C4 (as claimed): with a valid target and all active counts larger than 0,
\* when several active splits attain the minimal sum of squared deviations
\* the split returned is the first of them in the order train, test, val.
C4_TieEarliest ==
  (call_pc = "returned" /\ ValidTarget(call_args.target)
                        /\ AllCounted(call_args.current, call_args.target))
  => \A s \in ActiveSplits(call_args.target) :
       Minimizes(call_args.current, call_args.target, s)
       => Rank(call_ret.group) <= Rank(s)

\* C5: two-way degeneration.  With target.val = 0 and train, test > 0 every
\* call returns train or test, for every current; the generator yields only
\* train and test and its val count stays 0.
C5_TwoWayNeverVal ==
  /\ (CallDone /\ TwoWayTarget(call_args.target))
     => /\ call_pc = "returned"
        /\ call_ret.group \in {"train", "test"}
  /\ (gen # "absent" /\ TwoWayTarget(target))
     => /\ gen # "failed"
        /\ current["val"] = 0
        /\ \A k \in 1..Len(yielded) : yielded[k] \in {"train", "test"}

\* a call whose current has no val sample, so val would be due if active
C5_Witness ==
  /\ call_pc = "returned"
  /\ TwoWayTarget(call_args.target)
  /\ call_args.current["val"] = 0
  /\ call_args.current["train"] > 0
  /\ call_args.current["test"] > 0

\* C6: configuration rejection.  When some active split has target weight
\* <= 0 the call throws, for every current; no allocation step has run and
\* the error names the first invalid split in the order train, test, val
\* and its value.
C6_ConfigurationRejected ==
  (CallDone /\ ~ValidTarget(call_args.target))
  => /\ call_pc = "threw"
     /\ call_ret.kind = "error"
     /\ call_ret.rule = "validate"
     /\ call_ret.group \in ActiveSplits(call_args.target)
     /\ call_args.target[call_ret.group] <= 0
     /\ call_ret.value = call_args.target[call_ret.group]
     /\ \A s \in ActiveSplits(call_args.target) :
          call_args.target[s] <= 0 => Rank(call_ret.group) <= Rank(s)

\* test is named although val is invalid too and train has count 0
C6_Witness ==
  /\ call_pc = "threw"
  /\ call_ret.group = "test"
  /\ call_args.target["val"] < 0
  /\ call_args.current["train"] = 0

\* C8: a call, returning or throwing, leaves current and target as they
\* were when it was made.
C8_InputsUnchanged ==
  CallDone => /\ call_current = call_args.current
              /\ call_target = call_args.target

\* a call that went through the simulated increment of all three groups
C8_Witness ==
  /\ call_pc = "returned"
  /\ call_ret.rule = "prop"
  /\ call_ret.group = "val"

\* C9: convergence.  After ConvTotal assignments with target
\* {train: 7, test: 2, val: 1} every count satisfies
\* |count[s] / ConvTotal - target[s] / 10| <= 0.01, that is
\* 100 * |count[s] * 10 - target[s] * ConvTotal| <= 10 * ConvTotal.
C9_Convergence ==
  (gen # "absent" /\ target = ConvTarget /\ total = ConvTotal /\ i = ConvTotal)
  => \A s \in GroupType :
       100 * Abs(current[s] * SetSum(target, GroupType) - target[s] * ConvTotal)
         <= SetSum(target, GroupType) * ConvTotal

C9_Witness ==
  /\ gen = "done"
  /\ target = ConvTarget
  /\ i = ConvTotal
  /\ SetSum(current, GroupType) = ConvTotal

\* C10: with a valid target the generator yields exactly total groups, and
\* the k-th of them is what dispatchGroup returns for the counts of the
\* first k-1 and the same target.
C10_GeneratorDrivesDispatch ==
  (gen # "absent" /\ ValidTarget(target))
  => /\ gen # "failed"
     /\ Len(yielded) = i
     /\ i <= total
     /\ (gen = "done" => Len(yielded) = total)
     /\ \A k \in 1..Len(yielded) :
          LET r == dispatchGroup(CountsOf(SubSeq(yielded, 1, k - 1)), target)
          IN  r.kind = "ok" /\ yielded[k] = r.group

C10_Witness ==
  /\ gen = "done"
  /\ ValidTarget(target)
  /\ total = MaxTotal
  /\ Len(yielded) = MaxTotal

\* C11: starvation avoidance.  In a run of the generator (counts start at
\* zero) with a valid target, once N groups have been yielded, N being the
\* number of active splits, every active split has count >= 1; and every
\* group decided by the squared-error rule was decided with all active
\* counts >= 1 already.
C11_StarvationAvoidance ==
  (gen # "absent" /\ ValidTarget(target))
  => /\ Len(yielded) >= Cardinality(ActiveSplits(target))
        => AllCounted(current, target)
     /\ \A k \in 1..Len(yielded) :
          rules[k] = "prop"
          => AllCounted(CountsOf(SubSeq(yielded, 1, k - 1)), target)

\* val has the smallest weight there is, train the largest, and the
\* squared-error rule has been applied
C11_Witness ==
  /\ gen = "suspended"
  /\ target = [train |-> MaxWeight, test |-> MaxWeight, val |-> 1]
  /\ Len(yielded) > 3
  /\ rules[4] = "prop"
  /\ current["val"] = 1

\* no callback has failed so far
NoFailure == failure = NoError

\* the elements of a sequence
SeqSet(seq) == {seq[k] : k \in 1..Len(seq)}

NoDuplicate(seq) ==
  \A j, k \in 1..Len(seq) : seq[j] = seq[k] => j = k

\* C12: as long as no callback fails, saveSample has been called exactly
\* once for each sample pulled, in the order the samples were pulled, and
\* the k-th call carries the k-th sample and the split determined for it; a
\* run that ends has pulled and saved every sample the same number of times.
C12_SaveOncePerSampleInOrder ==
  (h_pc # "absent" /\ NoFailure)
  => /\ Len(saved) = Len(pulled)
     /\ Len(chosen) = Len(pulled)
     /\ \A k \in 1..Len(pulled) :
          saved[k] = [sample |-> pulled[k], groupType |-> chosen[k]]

\* a finished run of three different samples, the first of which was given
\* a split other than the one it came with
C12_Witness ==
  /\ h_pc = "done"
  /\ NoFailure
  /\ Len(saved) = MaxSamples
  /\ NoDuplicate(pulled)
  /\ saved[1].groupType # saved[1].sample.groupType

\* C13: at most one call of saveSample is in flight; while one is, it is
\* the call for the sample pulled last and the helper is suspended on it,
\* so no further sample has been pulled and no split chosen for one.
C13_OneSaveInFlight ==
  h_pc # "absent"
  => /\ Cardinality(inflight) <= 1
     /\ inflight \subseteq {Len(pulled)}
     /\ inflight # {} => (h_pc = "saving" /\ Len(chosen) = Len(pulled))
     /\ h_pc = "saving" => inflight = {Len(pulled)}

\* the second sample is being saved, the first save has completed
C13_Witness ==
  /\ h_pc = "saving"
  /\ Len(pulled) = 2
  /\ inflight = {2}

\* C14: once saveSample has failed for the k-th sample, the helper's
\* promise is rejected with that error, exactly k calls of saveSample have
\* been made (none for a later sample, no second one for the k-th), none
\* is in flight and createDirsAndMetadata has not been called.
C14_SaveFailurePropagates ==
  failure.kind = "save"
  => /\ h_pc = "rejected"
     /\ h_error = failure
     /\ Len(saved) = failure.at
     /\ Len(pulled) = failure.at
     /\ inflight = {}
     /\ finalized = <<>>

\* the save of the second sample failed in a run that has a finalize hook
C14_Witness ==
  /\ failure = [kind |-> "save", at |-> 2]
  /\ h_pc = "rejected"
  /\ createDirsAndMetadata
  /\ Len(saved) = 2

\* C15: when no callback fails, createDirsAndMetadata (if given) is called
\* at most once, and exactly once by the time the run is done; it is called
\* with every saveSample call made and completed, and its argument holds
\* each split passed to saveSample exactly once and nothing else.
C15_FinalizeOnceWithObservedSplits ==
  (h_pc # "absent" /\ NoFailure /\ createDirsAndMetadata)
  => /\ Len(finalized) <= 1
     /\ h_pc = "done" => Len(finalized) = 1
     /\ Len(finalized) = 1
        => /\ h_pc \in {"finalizing", "done"}
           /\ inflight = {}
           /\ Len(saved) = Len(pulled)
           /\ NoDuplicate(finalized[1])
           /\ SeqSet(finalized[1]) = {saved[k].groupType : k \in 1..Len(saved)}

\* three samples were saved to two splits
C15_Witness ==
  /\ h_pc = "done"
  /\ NoFailure
  /\ Len(saved) = 3
  /\ Len(finalized) = 1
  /\ Len(finalized[1]) = 2

\* C16: pass-through mode.  With neither override nor ratio every call of
\* saveSample carries the tag of its sample, no per-class count table is
\* created, and createDirsAndMetadata receives the tags that occurred.
C16_PassThrough ==
  (h_pc # "absent" /\ customDispatchGroup = "none" /\ groupRatio = {})
  => /\ \A k \in 1..Len(saved) : saved[k].groupType = saved[k].sample.groupType
     /\ Len(saved) = Len(pulled)
     /\ DOMAIN currentRatioByClass = {}
     /\ \A k \in 1..Len(finalized) :
          SeqSet(finalized[k]) = {pulled[j].groupType : j \in 1..Len(pulled)}

\* three samples tagged train, val, test
C16_Witness ==
  /\ customDispatchGroup = "none"
  /\ groupRatio = {}
  /\ h_pc = "done"
  /\ Len(saved) = 3
  /\ saved[1].groupType = "train"
  /\ saved[2].groupType = "val"
  /\ saved[3].groupType = "test"
  /\ finalized = << <<"train", "val", "test">> >>

\* the positions, among the samples a split was chosen for, of the samples
\* of class c
ClassPositions(c) ==
  {k \in 1..Len(chosen) : pulled[k].categoryName = c}

\* the splits chosen for the samples of class c, in order
ClassChosen(c) ==
  [j \in 1..Cardinality(ClassPositions(c)) |->
     chosen[CHOOSE k \in ClassPositions(c) :
              Cardinality({m \in ClassPositions(c) : m <= k}) = j]]

\* the classes seen so far
ClassesSeen == {pulled[k].categoryName : k \in 1..Len(pulled)}

\* C17: per-class bucketing.  Under ratio-based dispatch the splits given
\* to the samples of a class are, in order, the groups
\* genDispatchGroupSequence yields for the same target and that many
\* samples, however the samples of other classes are interleaved; the
\* table has one entry per class seen, holding the counts of that class's
\* assignments.
C17_PerClassBucketing ==
  (h_pc = "saving" /\ customDispatchGroup = "none" /\ groupRatio # {})
  => /\ DOMAIN currentRatioByClass = ClassesSeen
     /\ \A c \in ClassesSeen :
          /\ ClassChosen(c)
               = genDispatchGroupSequence(CHOOSE t \in groupRatio : TRUE,
                                          Len(ClassChosen(c)))
          /\ currentRatioByClass[c] = CountsOf(ClassChosen(c))

\* cat, dog, then four more samples, three of each class: both classes
\* start with train, which pooled counts would not give
C17_Witness ==
  /\ h_pc = "saving"
  /\ Len(pulled) = 6
  /\ pulled[1].categoryName = "cat"
  /\ pulled[2].categoryName = "dog"
  /\ chosen[1] = "train"
  /\ chosen[2] = "train"
  /\ Len(ClassChosen("cat")) = 3
  /\ groupRatio = {[train |-> 1, test |-> 1, val |-> 0]}
  /\ currentRatioByClass["dog"] = [train |-> 2, test |-> 1, val |-> 0]

\* the counts of the splits chosen for the samples of the class of the
\* k-th sample that were pulled before it
ClassCountsBefore(k) ==
  [g \in GroupType |->
     Cardinality({j \in 1..(k - 1) :
                    /\ pulled[j].categoryName = pulled[k].categoryName
                    /\ chosen[j] = g})]

\* C18: priority of the split sources.  The split chosen for a sample is
\* the override's when an override is given, also when a ratio is given
\* too; else what dispatchGroup returns for the counts of the sample's
\* class and the ratio when a ratio is given; else the sample's own tag.
C18_PriorityOfSplitSources ==
  h_pc = "saving"
  => \A k \in 1..Len(chosen) :
       chosen[k] =
         IF customDispatchGroup # "none"
         THEN customDispatch(customDispatchGroup, pulled[k]).group
         ELSE IF groupRatio # {}
         THEN dispatchGroup(ClassCountsBefore(k),
                            CHOOSE t \in groupRatio : TRUE).group
         ELSE pulled[k].groupType

\* override and ratio are both given; the ratio would send the first cat to
\* train and the sample came tagged test, the override sends it to val
C18_Witness ==
  /\ h_pc = "saving"
  /\ customDispatchGroup = "byClass"
  /\ groupRatio = {[train |-> 2, test |-> 1, val |-> 1]}
  /\ Len(chosen) = 1
  /\ pulled[1] = [categoryName |-> "cat", groupType |-> "test"]
  /\ chosen[1] = "val"

\* C19 (as claimed): when an override chooses the split, no per-class count
\* table is created and no counter is incremented.
C19_BookkeepingSkipped ==
  (h_pc # "absent" /\ customDispatchGroup # "none")
  => DOMAIN currentRatioByClass = {}

\* C19 (amended): when an override chooses the split its choice does not
\* depend on the per-class counts, but the bookkeeping is not skipped: a
\* count table is created for every class seen and the counter of the
\* chosen split is incremented for every sample the override decides.
C19_BookkeepingKept ==
  (h_pc # "absent" /\ customDispatchGroup # "none")
  => /\ DOMAIN currentRatioByClass = ClassesSeen
     /\ \A c \in ClassesSeen : currentRatioByClass[c] = CountsOf(ClassChosen(c))
     /\ \A k \in 1..Len(chosen) :
          chosen[k] = customDispatch(customDispatchGroup, pulled[k]).group

\* two cats and a dog decided by the override
C19_Witness ==
  /\ customDispatchGroup = "byClass"
  /\ Len(chosen) = 3
  /\ DOMAIN currentRatioByClass = {"cat", "dog"}
  /\ currentRatioByClass["cat"] = [train |-> 0, test |-> 0, val |-> 2]
  /\ currentRatioByClass["dog"] = [train |-> 0, test |-> 1, val |-> 0]

\* the ratio given has an active split whose weight is not positive
InvalidRatio == \E t \in groupRatio : ~ValidTarget(t)

\* C20: once the override or dispatchGroup has thrown for the k-th sample,
\* the helper's promise is rejected with that error, saveSample has been
\* called for the k-1 samples before it only, none of these calls is in
\* flight, and createDirsAndMetadata has not been called; dispatchGroup
\* throws for the first sample when the ratio has an active weight <= 0.
C20_DispatchFailurePropagates ==
  /\ failure.kind = "dispatch"
     => /\ h_pc = "rejected"
        /\ h_error = failure
        /\ Len(pulled) = failure.at
        /\ Len(saved) = failure.at - 1
        /\ Len(chosen) = failure.at - 1
        /\ inflight = {}
        /\ finalized = <<>>
  /\ (customDispatchGroup = "none" /\ InvalidRatio /\ Len(pulled) > 0)
     => failure = [kind |-> "dispatch", at |-> 1]

\* the override throws for the third sample of a run with a finalize hook
C20_Witness ==
  /\ failure = [kind |-> "dispatch", at |-> 3]
  /\ customDispatchGroup = "ownGroup"
  /\ createDirsAndMetadata
  /\ h_pc = "rejected"
  /\ Len(saved) = 2

\* C21 (as claimed): when the finalize hook fails, the helper's promise is
\* rejected with that error; and the helper's promise is not fulfilled
\* before the hook, if given, has completed.
C21_FinalizeFailurePropagates ==
  /\ failure.kind = "finalize" => (h_pc = "rejected" /\ h_error = failure)
  /\ (h_pc = "done" /\ createDirsAndMetadata) => hook = "fulfilled"

\* a counter of the table, 0 for a class that has no counts object yet
CounterOf(table, c, g) == IF c \in DOMAIN table THEN table[c][g] ELSE 0

RatioDispatched == customDispatchGroup = "none" /\ groupRatio # {}

\* C22: lifecycle of the counts in a ratio-dispatched run.  At every point
\* the counters of a class add up to the number of samples of the class
\* dispatched so far; a step that dispatches a sample adds exactly 1 to the
\* counter of the chosen split of the sample's class and leaves every other
\* counter as it was, and no other step changes a counter.
C22_CountsLifecycle ==
  /\ [](RatioDispatched
        => \A c \in ClassNames :
             CounterOf(currentRatioByClass, c, "train")
               + CounterOf(currentRatioByClass, c, "test")
               + CounterOf(currentRatioByClass, c, "val")
             = Cardinality(ClassPositions(c)))
  /\ [][RatioDispatched
        => \A c \in ClassNames, g \in GroupType :
             CounterOf(currentRatioByClass', c, g)
               = CounterOf(currentRatioByClass, c, g)
                 + (IF /\ Len(chosen') = Len(chosen) + 1
                       /\ c = pulled'[Len(chosen')].categoryName
                       /\ g = chosen'[Len(chosen')]
                    THEN 1 ELSE 0)]_vars

\* the second cat has been dispatched after a dog, to another split than
\* the first cat
C22_Witness ==
  /\ RatioDispatched
  /\ Len(chosen) = 3
  /\ pulled[1].categoryName = "cat"
  /\ pulled[2].categoryName = "dog"
  /\ pulled[3].categoryName = "cat"
  /\ currentRatioByClass["cat"] = [train |-> 1, test |-> 1, val |-> 0]
  /\ currentRatioByClass["dog"] = [train |-> 1, test |-> 0, val |-> 0]

\* C23: no rollback.  Once saveSample has failed for a sample of a
\* ratio-dispatched run, the counts still include that sample (its class's
\* counter of the chosen split was incremented), the observed splits still
\* include its split, and createDirsAndMetadata has not been called.
C23_NoRollbackOnSaveFailure ==
  (failure.kind = "save" /\ RatioDispatched)
  => /\ Len(chosen) = failure.at
     /\ DOMAIN currentRatioByClass = ClassesSeen
     /\ \A c \in ClassesSeen : currentRatioByClass[c] = CountsOf(ClassChosen(c))
     /\ currentRatioByClass[pulled[failure.at].categoryName][chosen[failure.at]]
          >= 1
     /\ Includes(groupTypes, chosen[failure.at])
     /\ SeqSet(groupTypes) = SeqSet(chosen)
     /\ finalized = <<>>
     /\ hook = "none"

\* the save of the second cat failed; it was the first sample sent to test
C23_Witness ==
  /\ failure = [kind |-> "save", at |-> 2]
  /\ RatioDispatched
  /\ createDirsAndMetadata
  /\ pulled[1].categoryName = "cat"
  /\ pulled[2].categoryName = "cat"
  /\ currentRatioByClass["cat"] = [train |-> 1, test |-> 1, val |-> 0]
  /\ groupTypes = <<"train", "test">>

\* the integer deficit of split s: (total_current + 1) * target[s]
\*                                 - current[s] * total_target
Deficit(c, t, s) ==
  (SetSum(c, ActiveSplits(t)) + 1) * t[s] - c[s] * SetSum(t, ActiveSplits(t))

MaxDeficit(c, t, s) ==
  /\ s \in ActiveSplits(t)
  /\ \A r \in ActiveSplits(t) : Deficit(c, t, r) <= Deficit(c, t, s)

\* C26 (as claimed): with a valid target and all active counts larger than
\* 0 the split returned is the first one, in the order train, test, val,
\* whose integer deficit is the largest among the active splits.
C26_LargestDeficitFirst ==
  (call_pc = "returned" /\ ValidTarget(call_args.target)
                        /\ AllCounted(call_args.current, call_args.target))
  => /\ MaxDeficit(call_args.current, call_args.target, call_ret.group)
     /\ \A s \in ActiveSplits(call_args.target) :
          MaxDeficit(call_args.current, call_args.target, s)
          => Rank(call_ret.group) <= Rank(s)

\* C27: bounded discrepancy.  In every state of a generator run with a
\* valid target, N assignments made, T the sum of the active weights and k
\* the number of active splits, every active split s satisfies
\*   N * target[s] - (k - 1) * T < count[s] * T < N * target[s] + T.
C27_BoundedDiscrepancy ==
  (gen # "absent" /\ ValidTarget(target))
  => \A s \in ActiveSplits(target) :
       /\ SetSum(current, ActiveSplits(target)) = i
       /\ i * target[s]
            - (Cardinality(ActiveSplits(target)) - 1)
                * SetSum(target, ActiveSplits(target))
          < current[s] * SetSum(target, ActiveSplits(target))
       /\ current[s] * SetSum(target, ActiveSplits(target))
          < i * target[s] + SetSum(target, ActiveSplits(target))

\* after the cold start with the most uneven target, train is below its
\* exact share and val above it
C27_Witness ==
  /\ gen = "suspended"
  /\ target = [train |-> MaxWeight, test |-> 1, val |-> 1]
  /\ i = 3
  /\ current = [train |-> 1, test |-> 1, val |-> 1]
  /\ i * target["train"] > current["train"] * SetSum(target, GroupType)
  /\ i * target["val"] < current["val"] * SetSum(target, GroupType)

\* C28: in two-way mode (target.val = 0) the outcome of a call does not
\* depend on current.val: the call made with any other value of current.val
\* and the same target, current.train and current.test ends the same way,
\* with the same split.
C28_TwoWayIgnoresVal ==
  (CallDone /\ call_args.target["val"] = 0)
  => \A v \in 0..MaxCount :
       /\ dispatchGroup([call_args.current EXCEPT !["val"] = v],
                        call_args.target).kind = call_ret.kind
       /\ dispatchGroup([call_args.current EXCEPT !["val"] = v],
                        call_args.target).group = call_ret.group

\* a two-way call decided by the squared-error rule, made with the largest
\* val count
C28_Witness ==
  /\ call_pc = "returned"
  /\ TwoWayTarget(call_args.target)
  /\ call_args.current["val"] = MaxCount
  /\ call_ret.rule = "prop"
  /\ call_ret.group = "test"

\* C29: the generator with an invalid target (an active weight <= 0).  It
\* is created without an error; it never yields a split and its counts stay
\* zero; a pull makes it fail when total >= 1 and makes it return, the
\* sequence empty, when total = 0.
C29_GeneratorInvalidTarget ==
  /\ []((gen # "absent" /\ ~ValidTarget(target))
        => /\ yielded = <<>>
           /\ i = 0
           /\ current = ZeroCounts
           /\ gen = "failed" => total >= 1
           /\ gen = "done" => total = 0)
  /\ [][(gen = "suspended" /\ ~ValidTarget(target))
        => gen' = IF total >= 1 THEN "failed" ELSE "done"]_vars

\* the first pull of a generator of MaxTotal groups has thrown: train has
\* weight 0 while val is active
C29_Witness ==
  /\ gen = "failed"
  /\ total = MaxTotal
  /\ target["train"] = 0
  /\ target["test"] > 0
  /\ target["val"] > 0

\* the calls of cachedMkdir for dir whose mkdir succeeded
Made(dir) ==
  {k \in 1..Len(mk_log) : mk_log[k].dir = dir /\ mk_log[k].result = "ok"}

\* C25: cachedMkdir.  A directory is in created_dirs only after a mkdir for
\* it has succeeded, and a call returns at once only for such a directory
\* (so after a failed mkdir a later call tries again); as long as no two
\* calls have overlapped, mkdir has succeeded at most once for a directory
\* and every call for it made after that, in this run or a later one, has
\* returned at once; the cache never loses a directory, and a failing
\* mkdir leaves it as it is.
C25_CachedMkdir ==
  /\ [](/\ \A dir \in created_dirs : Made(dir) # {}
        /\ \A k \in 1..Len(mk_log) :
             mk_log[k].result = "cached"
             => \E j \in Made(mk_log[k].dir) : j < k
        /\ ~overlapped
           => \A dir \in DestDirs :
                /\ Cardinality(Made(dir)) <= 1
                /\ \A j \in Made(dir) : \A k \in (j + 1)..Len(mk_log) :
                     mk_log[k].dir = dir => mk_log[k].result = "cached")
  /\ [][/\ created_dirs \subseteq created_dirs'
        /\ (\E k \in Pending(mk_log) : mk_log'[k].result = "failed")
           => created_dirs' = created_dirs]_vars

\* mkdir failed, the next call for the directory tried again and succeeded,
\* and a call of the next run found the directory in the cache
C25_Witness ==
  /\ ~overlapped
  /\ mk_run = 2
  /\ Len(mk_log) = 3
  /\ mk_log[1] = [dir |-> <<"train", "images">>, result |-> "failed", run |-> 1]
  /\ mk_log[2] = [dir |-> <<"train", "images">>, result |-> "ok", run |-> 1]
  /\ mk_log[3] = [dir |-> <<"train", "images">>, result |-> "cached", run |-> 2]

\* the labels of the calls of save_sample, in the order the calls were made
LabelsOf(calls) == [k \in 1..Len(calls) |-> label_str(calls[k].sample)]

\* the content of a file of these lines: a newline between two lines
Joined(lines) ==
  [k \in 1..(2 * Len(lines) - 1) |->
     IF k % 2 = 1 THEN lines[(k + 1) \div 2] ELSE "\n"]

\* the calls of save_sample for the image file f and the split g
SavedOfImage(g, f) ==
  SelectSeq(saved, LAMBDA c : c.groupType = g /\ c.sample.filename = f)

\* the calls of save_sample whose label file is that of f, for the split g
SavedOfLabelFile(g, f) ==
  SelectSeq(saved, LAMBDA c : /\ c.groupType = g
                              /\ label_filename(c.sample.filename)
                                   = label_filename(f))

\* C24 as stated: when no save is in flight and nothing has failed, the label
\* file of an image file and a split holds exactly the lines of the samples
\* of that image file saved to that split, one per sample in arrival order.
C24_LinesPerImageFilename ==
  (NoFailure /\ inflight = {}) =>
    \A g \in GroupType, f \in ImageFilenames :
        SavedOfImage(g, f) # <<>> =>
          /\ existsSync(files, label_dest_path(g, f))
          /\ files[label_dest_path(g, f)] = Joined(LabelsOf(SavedOfImage(g, f)))

\* What holds in place of C24: when no save is in flight and nothing has
\* failed, a label
\* file of a split holds exactly the lines of the samples saved to that split
\* whose image file names have the name of the label file once the extension
\* is taken off, one per sample in arrival order: the first call has created
\* the file, each later one has appended a newline and its label.
LinesPerLabelFile ==
  (NoFailure /\ inflight = {}) =>
    \A g \in GroupType, f \in ImageFilenames :
        SavedOfLabelFile(g, f) # <<>> =>
          /\ existsSync(files, label_dest_path(g, f))
          /\ files[label_dest_path(g, f)]
               = Joined(LabelsOf(SavedOfLabelFile(g, f)))

\* the images of a class in the source groups
ImagesOfClass(c) ==
  { [group_type |-> classify_groups[g].group_type,
     filename   |-> classify_groups[g].classes[e].filenames[k]] :
      <<g, e, k>> \in
        { t \in (1..Len(classify_groups)) \X (1..2) \X (1..(MaxImages + 1)) :
            /\ t[2] <= Len(classify_groups[t[1]].classes)
            /\ classify_groups[t[1]].classes[t[2]].class_name = c
            /\ t[3] <= Len(classify_groups[t[1]].classes[t[2]].filenames) } }

\* the calls of copyFile made for a class, in the order they were made
CopiesOf(c) == SelectSeq(copied, LAMBDA call : call.src[2] = c)

\* the calls of copyFile that copy the image m of the class c
CopiesOfImage(c, m) ==
  {k \in 1..Len(copied) : copied[k].src = <<m.group_type, c, m.filename>>}

\* the copy just made is the k-th of its class: it copies the k-th pooled
\* image of the class to the k-th split of the sequence
CopiedInOrder(entry, k, group_seq) ==
  /\ k <= Len(entry.images)
  /\ copied[Len(copied)]
       = CopyCall(entry.class_name, entry.images[k], group_seq[k])

====
